---- MODULE Spec2Model ----
(***************************************************************************)
(* Model of src/js/shared/jcr.js: the JCR package builder of the importer. *)
(*                                                                         *)
(* Strings are sequences of one-character strings, so that startsWith,     *)
(* split, replace, pop and join are computed as the code computes them.    *)
(* A site-name configuration value is the sequence of its charCodeAt       *)
(* values, the only way getSiteName reads it.                              *)
(***************************************************************************)
EXTENDS Integers, Sequences, FiniteSets, TLC

(***************************************************************************)
(* Bounds of the model                                                     *)
(***************************************************************************)
MaxPages == 2        \* pages handed to one createJcrPackage call
MaxAnomalies == 1    \* retrievals of one run that do not answer 200 + content-type
MaxSegments == 2     \* path segments of the asset URLs given to getJcrAssetPath
MaxParams == 2       \* query parameters of those URLs
MaxRun == 64         \* equal characters at the start of a site name configuration
MaxCalls == 2        \* calls of getJcrPages, getJcrAssets, getJcrPaths made in a row

(***************************************************************************)
(* JavaScript values                                                       *)
(***************************************************************************)
Null == [kind |-> "null"]
Undefined == [kind |-> "undefined"]
IsNullish(v) == v = Null \/ v = Undefined
\* a string is truthy unless it is empty; null and undefined are falsy
Truthy(v) == ~IsNullish(v) /\ v # <<>>

(***************************************************************************)
(* String and Array primitives of JavaScript                               *)
(***************************************************************************)
StartsWith(s, p) == Len(s) >= Len(p) /\ SubSeq(s, 1, Len(p)) = p

\* 1-based position of the first occurrence of p in s, 0 when there is none
IndexOf(s, p) ==
  LET hits == {i \in 1..(Len(s) - Len(p) + 1) : SubSeq(s, i, i + Len(p) - 1) = p}
  IN IF hits = {} THEN 0 ELSE CHOOSE i \in hits : \A j \in hits : i <= j

\* 1-based position of the last occurrence of p in s, 0 when there is none
LastIndexOf(s, p) ==
  LET hits == {i \in 1..(Len(s) - Len(p) + 1) : SubSeq(s, i, i + Len(p) - 1) = p}
  IN IF hits = {} THEN 0 ELSE CHOOSE i \in hits : \A j \in hits : i >= j

Includes(s, p) == IndexOf(s, p) # 0

\* s.replace(p, r) with a string pattern: the first occurrence only
Replace(s, p, r) ==
  LET i == IndexOf(s, p)
  IN IF i = 0 THEN s
     ELSE SubSeq(s, 1, i - 1) \o r \o SubSeq(s, i + Len(p), Len(s))

\* s.split(c) for a one-character separator c
RECURSIVE Split(_, _)
Split(s, c) ==
  LET i == IndexOf(s, <<c>>)
  IN IF i = 0 THEN <<s>>
     ELSE <<SubSeq(s, 1, i - 1)>> \o Split(SubSeq(s, i + 1, Len(s)), c)

\* tokens.join(c)
RECURSIVE Join(_, _)
Join(tokens, sep) ==
  IF tokens = <<>> THEN <<>>
  ELSE IF Len(tokens) = 1 THEN tokens[1]
  ELSE tokens[1] \o sep \o Join(Tail(tokens), sep)

\* array.pop(): the last element
Pop(arr) == arr[Len(arr)]

\* tokens.splice(start, 1, item) with a 0-based start, as the mutated array
Splice(tokens, start, item) ==
  IF start >= Len(tokens) THEN Append(tokens, item)
  ELSE [tokens EXCEPT ![start + 1] = item]

\* s.substring(from) with a 0-based from
Substring(s, from) == SubSeq(s, from + 1, Len(s))

ContentPrefix == <<"/","c","o","n","t","e","n","t","/">>   \* '/content/'
DamPrefix == <<"/","c","o","n","t","e","n","t","/","d","a","m","/">>   \* '/content/dam/'
Http == <<"h","t","t","p">>   \* 'http'
DotSlash == <<".","/">>   \* './'

(***************************************************************************)
(* getSiteName                                                             *)
(***************************************************************************)
labelCharMapping ==
  <<
    <<"_">>, <<"_">>, <<"_">>, <<"_">>, <<"_">>, <<"_">>, <<"_">>, <<"_">>,
    <<"_">>, <<"_">>, <<"_">>, <<"_">>, <<"_">>, <<"_">>, <<"_">>, <<"_">>,
    <<"_">>, <<"_">>, <<"_">>, <<"_">>, <<"_">>, <<"_">>, <<"_">>, <<"_">>,
    <<"_">>, <<"_">>, <<"_">>, <<"_">>, <<"_">>, <<"_">>, <<"_">>, <<"_">>,
    <<"_">>, <<"_">>, <<"_">>, <<"_">>, <<"_">>, <<"_">>, <<"_">>, <<"_">>,
    <<"_">>, <<"_">>, <<"_">>, <<"_">>, <<"_">>, <<"-">>, <<"_">>, <<"_">>,
    <<"0">>, <<"1">>, <<"2">>, <<"3">>, <<"4">>, <<"5">>, <<"6">>, <<"7">>,
    <<"8">>, <<"9">>, <<"_">>, <<"_">>, <<"_">>, <<"_">>, <<"_">>, <<"_">>,
    <<"_">>, <<"a">>, <<"b">>, <<"c">>, <<"d">>, <<"e">>, <<"f">>, <<"g">>,
    <<"h">>, <<"i">>, <<"j">>, <<"k">>, <<"l">>, <<"m">>, <<"n">>, <<"o">>,
    <<"p">>, <<"q">>, <<"r">>, <<"s">>, <<"t">>, <<"u">>, <<"v">>, <<"w">>,
    <<"x">>, <<"y">>, <<"z">>, <<"_">>, <<"_">>, <<"_">>, <<"_">>, <<"_">>,
    <<"_">>, <<"a">>, <<"b">>, <<"c">>, <<"d">>, <<"e">>, <<"f">>, <<"g">>,
    <<"h">>, <<"i">>, <<"j">>, <<"k">>, <<"l">>, <<"m">>, <<"n">>, <<"o">>,
    <<"p">>, <<"q">>, <<"r">>, <<"s">>, <<"t">>, <<"u">>, <<"v">>, <<"w">>,
    <<"x">>, <<"y">>, <<"z">>, <<"_">>, <<"_">>, <<"_">>, <<"_">>, <<"_">>,
    <<"_">>, <<"f">>, <<"_">>, <<"_">>, <<"_">>, <<"f","i">>, <<"f","i">>, <<"_">>,
    <<"_">>, <<"_">>, <<"_">>, <<"_">>, <<"_">>, <<"_">>, <<"_">>, <<"_">>,
    <<"_">>, <<"_">>, <<"_">>, <<"_">>, <<"_">>, <<"_">>, <<"_">>, <<"_">>,
    <<"_">>, <<"_">>, <<"_">>, <<"_">>, <<"y">>, <<"_">>, <<"_">>, <<"_">>,
    <<"_">>, <<"i">>, <<"c">>, <<"p">>, <<"o">>, <<"v">>, <<"_">>, <<"s">>,
    <<"_">>, <<"_">>, <<"_">>, <<"_">>, <<"_">>, <<"_">>, <<"_">>, <<"_">>,
    <<"_">>, <<"_">>, <<"_">>, <<"_">>, <<"_">>, <<"_">>, <<"_">>, <<"_">>,
    <<"_">>, <<"_">>, <<"_">>, <<"_">>, <<"_">>, <<"_">>, <<"_">>, <<"_">>,
    <<"a">>, <<"a">>, <<"a">>, <<"a">>, <<"a","e">>, <<"a">>, <<"a","e">>, <<"c">>,
    <<"e">>, <<"e">>, <<"e">>, <<"e">>, <<"i">>, <<"i">>, <<"i">>, <<"i">>,
    <<"d">>, <<"n">>, <<"o">>, <<"o">>, <<"o">>, <<"o">>, <<"o","e">>, <<"x">>,
    <<"o">>, <<"u">>, <<"u">>, <<"u">>, <<"u","e">>, <<"y">>, <<"b">>, <<"s","s">>,
    <<"a">>, <<"a">>, <<"a">>, <<"a">>, <<"a","e">>, <<"a">>, <<"a","e">>, <<"c">>,
    <<"e">>, <<"e">>, <<"e">>, <<"e">>, <<"i">>, <<"i">>, <<"i">>, <<"i">>,
    <<"o">>, <<"n">>, <<"o">>, <<"o">>, <<"o">>, <<"o">>, <<"o","e">>, <<"_">>,
    <<"o">>, <<"u">>, <<"u">>, <<"u">>, <<"u","e">>, <<"y">>, <<"b">>, <<"y">>
  >>

defaultReplacementCharacter == <<"_">>
NameLimit == 64      \* name.length < 64 in the loop condition
EscapeLimit == 16    \* name.length < 16 before a placeholder is pushed

\* repl for the char code c, looked up in the mapping table
Replacement(mapping, c) ==
  IF c >= 0 /\ c < Len(mapping) THEN mapping[c + 1]
  ELSE defaultReplacementCharacter

\* the for loop of getSiteName: name is the array of pushed replacements;
\* SiteNameStep is one round of the loop body, given its repl
RECURSIVE SiteNameLoop(_, _, _, _)
SiteNameStep(siteNameConfig, idx, name, prevEscaped, repl) ==
  IF repl = defaultReplacementCharacter
  THEN SiteNameLoop(siteNameConfig, idx + 1,
         IF ~prevEscaped /\ Len(name) < EscapeLimit
         THEN Append(name, defaultReplacementCharacter) ELSE name,
         TRUE)
  ELSE SiteNameLoop(siteNameConfig, idx + 1, Append(name, repl), FALSE)

SiteNameLoop(siteNameConfig, idx, name, prevEscaped) ==
  IF ~(idx < Len(siteNameConfig) /\ Len(name) < NameLimit) THEN name
  ELSE SiteNameStep(siteNameConfig, idx, name, prevEscaped,
                    Replacement(labelCharMapping, siteNameConfig[idx + 1]))

getSiteName(siteNameConfig) == Join(SiteNameLoop(siteNameConfig, 0, <<>>, FALSE), <<>>)

(***************************************************************************)
(* Path mapping                                                            *)
(***************************************************************************)
\* getPackageName that never appends the page name
SiteNameOnly(pages, siteName) == siteName

\* each function below first sanitizes the site name; its body is then the
\* operator of the same name with the suffix Named, given that siteName
getPackageNameNamed(pages, siteName) ==
  IF Len(pages) = 1
  THEN siteName \o <<"_">> \o Pop(Split(pages[1].path, "/"))
  ELSE siteName

getPackageName(pages, siteNameConfig) ==
  getPackageNameNamed(pages, getSiteName(siteNameConfig))

\* getJcrPagePath that puts every path below /content/{siteName}, whatever
\* it starts with
AlwaysBelowSite(path, siteName) ==
  ContentPrefix \o siteName \o path

getJcrPagePathNamed(path, siteName) ==
  IF StartsWith(path, ContentPrefix)
  THEN Join(Splice(Split(path, "/"), 2, siteName), <<"/">>)
  ELSE ContentPrefix \o siteName \o path

getJcrPagePath(path, siteNameConfig) ==
  getJcrPagePathNamed(path, getSiteName(siteNameConfig))

\* URLSearchParams: params is the sequence of <<key, value>> pairs in the
\* order of the query string; keys() lists every occurrence, get(key) is the
\* value of the first pair with that key
ParamKeys(params) == [i \in 1..Len(params) |-> params[i][1]]

ParamGet(params, key) ==
  LET first == CHOOSE i \in 1..Len(params) :
                 params[i][1] = key /\ \A j \in 1..(i - 1) : params[j][1] # key
  IN params[first][2]

getJcrAssetPathNamed(assetUrl, siteName) ==
  LET params == assetUrl.searchParams
      extension == IF Includes(assetUrl.pathname, <<".">>)
                   THEN <<".">> \o Pop(Split(assetUrl.pathname, "."))
                   ELSE <<>>
      path == Replace(assetUrl.pathname, extension, <<>>)
      keys == ParamKeys(params)
      suffix == Join([i \in 1..Len(keys) |->
                        <<"_">> \o keys[i] \o ParamGet(params, keys[i])], <<>>)
  IN IF StartsWith(path, DamPrefix)
     THEN Join(Splice(Split(path, "/"), 3, siteName), <<"/">>) \o extension
     ELSE DamPrefix \o siteName \o path \o suffix \o extension

getJcrAssetPath(assetUrl, siteNameConfig) ==
  getJcrAssetPathNamed(assetUrl, getSiteName(siteNameConfig))

(***************************************************************************)
(* new URL(string): origin, pathname and searchParams of an absolute URL   *)
(* that is already in normal form (no fragment, no percent escapes, no dot *)
(* segments); an empty path reads as '/'.                                  *)
(***************************************************************************)
SchemeSep == <<":","/","/">>

\* one 'key=value' piece of the query string
ParseParam(piece) ==
  LET i == IndexOf(piece, <<"=">>)
  IN IF i = 0 THEN <<piece, <<>>>>
     ELSE <<SubSeq(piece, 1, i - 1), SubSeq(piece, i + 1, Len(piece))>>

ParseSearch(search) ==
  LET pieces == SelectSeq(Split(search, "&"), LAMBDA p : p # <<>>)
  IN [i \in 1..Len(pieces) |-> ParseParam(pieces[i])]

\* the URL object; the operators below cut the string at '://', at the first
\* '/' and at the first '?' after it
UrlRecord(origin, rawPath, hasQuery, search) ==
  [kind |-> "url",
   href |-> origin \o (IF rawPath = <<>> THEN <<"/">> ELSE rawPath)
              \o (IF hasQuery THEN <<"?">> \o search ELSE <<>>),
   origin |-> origin,
   pathname |-> IF rawPath = <<>> THEN <<"/">> ELSE rawPath,
   searchParams |-> ParseSearch(search)]

UrlCut(scheme, rest, hostEnd, pathEnd) ==
  UrlRecord(scheme \o SubSeq(rest, 1, hostEnd),
            SubSeq(rest, hostEnd + 1, pathEnd),
            pathEnd < Len(rest),
            SubSeq(rest, pathEnd + 2, Len(rest)))

UrlMarks(scheme, rest, slash, quest) ==
  UrlCut(scheme, rest,
         IF slash # 0 /\ (quest = 0 \/ slash < quest) THEN slash - 1
         ELSE IF quest # 0 THEN quest - 1 ELSE Len(rest),
         IF quest # 0 THEN quest - 1 ELSE Len(rest))

UrlRest(scheme, rest) ==
  UrlMarks(scheme, rest, IndexOf(rest, <<"/">>), IndexOf(rest, <<"?">>))

UrlScheme(str, s) == UrlRest(SubSeq(str, 1, s + 2), SubSeq(str, s + 3, Len(str)))

URL(str) == UrlScheme(str, IndexOf(str, SchemeSep))

(***************************************************************************)
(* Mime types                                                              *)
(***************************************************************************)
\* the mimeTypes object of getMimeTypeFromExtension, key -> value
mimeTypes ==
  <<
    <<<<"h","t","m","l">>,
      <<"t","e","x","t","/","h","t","m","l">>>>,
    <<<<"c","s","s">>,
      <<"t","e","x","t","/","c","s","s">>>>,
    <<<<"j","s">>,
      <<"a","p","p","l","i","c","a","t","i","o","n","/","j","a","v","a","s","c","r","i","p","t">>>>,
    <<<<"p","n","g">>,
      <<"i","m","a","g","e","/","p","n","g">>>>,
    <<<<"j","p","g">>,
      <<"i","m","a","g","e","/","j","p","e","g">>>>,
    <<<<"g","i","f">>,
      <<"i","m","a","g","e","/","g","i","f">>>>
  >>

getMimeTypeFromExtension(extension) ==
  IF \E i \in 1..Len(mimeTypes) : mimeTypes[i][1] = extension
  THEN mimeTypes[CHOOSE i \in 1..Len(mimeTypes) : mimeTypes[i][1] = extension][2]
  ELSE Undefined

(***************************************************************************)
(* Reference classification                                                *)
(***************************************************************************)
\* a thrown exception, as the outcome of a call
TypeError == [kind |-> "throw", error |-> "TypeError"]
IsThrow(v) == v = TypeError

\* the object literal returned by getAsset; blob and mimeType are the
\* properties fetchAssetData adds later, undefined until then
Asset(fileReference, processedFileRef, jcrPath, url, add) ==
  [kind |-> "asset",
   fileReference |-> fileReference,
   processedFileRef |-> processedFileRef,
   jcrPath |-> jcrPath,
   url |-> url,
   add |-> add,
   blob |-> Undefined,
   mimeType |-> Undefined]

\* the four branches that bundle the asset: jcrPath is set, the reference is
\* rewritten to it, add is true
Bundled(fileReference, url, jcrPath) ==
  Asset(fileReference, jcrPath, jcrPath, url, TRUE)

Included(fileReference, url, siteName) ==
  Bundled(fileReference, url, getJcrAssetPath(url, siteName))

\* every reference that starts with 'http' is bundled, whatever its origin
AnyOriginBundled(fileReference, host, url, siteName) ==
  Included(fileReference, url, siteName)

\* the branch of a reference that starts with 'http', given its parsed url
getAssetHttp(fileReference, host, url, siteName) ==
  IF url.origin = host
  THEN Included(fileReference, url, siteName)
  ELSE Asset(fileReference, fileReference, Undefined, url, FALSE)

\* getAsset that resolves a './' reference on the origin's root, not on the
\* page's parent directory
ResolvedOnRoot(fileReference, host, pagePath, siteName) ==
  IF StartsWith(fileReference, Http)
  THEN getAssetHttp(fileReference, host, URL(fileReference), siteName)
  ELSE IF StartsWith(fileReference, <<"/">>)
  THEN Included(fileReference, URL(host \o fileReference), siteName)
  ELSE IF StartsWith(fileReference, DotSlash)
  THEN Included(fileReference, URL(host \o Substring(fileReference, 1)), siteName)
  ELSE Asset(fileReference, fileReference, Undefined, Undefined, FALSE)

\* getAsset, given the parsed page URL
getAssetOnPage(fileReference, host, pagePath, siteName) ==
  IF StartsWith(fileReference, Http)
  THEN getAssetHttp(fileReference, host, URL(fileReference), siteName)
  ELSE IF StartsWith(fileReference, DamPrefix)
  THEN Included(fileReference, URL(host \o fileReference), siteName)
  ELSE IF StartsWith(fileReference, <<"/">>)
  THEN Included(fileReference, URL(host \o fileReference), siteName)
  ELSE IF StartsWith(fileReference, DotSlash)
  THEN Included(fileReference,
                URL(host \o SubSeq(pagePath, 1, LastIndexOf(pagePath, <<"/">>) - 1)
                         \o Substring(fileReference, 1)),
                siteName)
  ELSE Asset(fileReference, fileReference, Undefined, Undefined, FALSE)

getAsset(fileReference, pageUrl, siteName) ==
  IF ~Truthy(fileReference) \/ fileReference = <<>> THEN Null
  ELSE getAssetOnPage(fileReference, URL(pageUrl).origin, URL(pageUrl).pathname, siteName)

\* asset.processedFileRef: reading a property of null is a TypeError
ProcessedFileRefOf(asset) ==
  IF asset = Null THEN TypeError ELSE asset.processedFileRef

getProcessedFileRef(fileReference, pageUrl, siteName) ==
  ProcessedFileRefOf(getAsset(fileReference, pageUrl, siteName))

(***************************************************************************)
(* Inputs.  String literals are spelled character by character; the        *)
(* comment gives the string.                                               *)
(***************************************************************************)
H1 == <<"h","t","t","p","s",":","/","/","h","1">>   \* 'https://h1'
H2 == <<"h","t","t","p","s",":","/","/","h","2">>   \* 'https://h2'
RefRelative == <<".","/","a","/","x",".","p","n","g","?","w","=","1">>   \* './a/x.png?w=1'
RefAbsolute == <<"/","a","/","x",".","p","n","g">>   \* '/a/x.png'
RefSameOrigin == <<"h","t","t","p","s",":","/","/","h","1","/","a","/","x",".","p","n","g">>   \* 'https://h1/a/x.png'
RefOtherOrigin == <<"h","t","t","p","s",":","/","/","h","2","/","b","/","y",".","p","n","g","?","w","=","1">>   \* 'https://h2/b/y.png?w=1'
RefDam == <<"/","c","o","n","t","e","n","t","/","d","a","m","/","t","/","x",".","p","n","g","?","w","=","1">>   \* '/content/dam/t/x.png?w=1'
RefNoExtension == <<"/","a","/","x">>   \* '/a/x'
RefBare == <<"x",".","p","n","g">>   \* 'x.png'
RefEmpty == <<>>   \* ''
RefSuffixed == <<"/","1","/","a","/","x","_","w","1",".","p","n","g">>   \* '/1/a/x_w1.png'
ServerContentType == <<"i","m","a","g","e","/","w","e","b","p">>   \* 'image/webp'
JcrRoot == <<"j","c","r","_","r","o","o","t">>   \* 'jcr_root'
ContentXml == <<"/",".","c","o","n","t","e","n","t",".","x","m","l">>   \* '/.content.xml'
OriginalRendition == <<"/","_","j","c","r","_","c","o","n","t","e","n","t","/","r","e","n","d","i","t","i","o","n","s","/","o","r","i","g","i","n","a","l">>   \* '/_jcr_content/renditions/original'
filterXmlPath == <<"M","E","T","A","-","I","N","F","/","v","a","u","l","t","/","f","i","l","t","e","r",".","x","m","l">>   \* 'META-INF/vault/filter.xml'
propXmlPath == <<"M","E","T","A","-","I","N","F","/","v","a","u","l","t","/","p","r","o","p","e","r","t","i","e","s",".","x","m","l">>   \* 'META-INF/vault/properties.xml'
prefix == <<"j","c","r">>   \* 'jcr'
ZipExtension == <<".","z","i","p">>   \* '.zip'

\* site-name configuration values, as charCodeAt sequences
SiteRepo == <<114,101,112,111>>   \* 'repo'
SiteMixed == <<83,32,49>>   \* 'S 1' -> 's_1'
SiteNames == {SiteRepo, SiteMixed}

\* the site name a package is built with: one that getSiteName changes
BuildSiteNames == {SiteMixed}

\* markup: a page's data is the sequence of its elements; an element records
\* its attributes, Undefined for an attribute it does not carry
Image(fileReference) ==
  [name |-> "image", resourceType |-> "image/v1/image",
   fileReference |-> fileReference, fileReferenceMimeType |-> Undefined]

Button ==
  [name |-> "button", resourceType |-> "button/v1/button",
   fileReference |-> Undefined, fileReferenceMimeType |-> Undefined]

Page(path, url, data) == [path |-> path, url |-> url, data |-> data]

\* the pages a run can be given
PageCatalogue ==
  << Page(<<"/","1","/","p">>,
         H1 \o <<"/","1","/","p",".","h","t","m","l">>,
         <<Image(RefRelative), Image(RefAbsolute), Button>>),
    Page(<<"/","2","/","q">>,
         H1 \o <<"/","2","/","q",".","h","t","m","l">>,
         <<Image(RefSameOrigin), Image(RefOtherOrigin)>>),
    Page(<<"/","c","o","n","t","e","n","t","/","t","/","r">>,
         H2 \o <<"/","3","/","r",".","h","t","m","l">>,
         <<Image(RefOtherOrigin), Image(RefDam)>>),
    Page(<<"/","c","o","n","t","e","n","t","/","u","/","r">>,
         H1 \o <<"/","4","/","r",".","h","t","m","l">>,
         <<Image(RefNoExtension), Image(RefBare), Image(RefNoExtension)>>),
    Page(<<"/","5","/","e">>,
         H1 \o <<"/","5","/","e",".","h","t","m","l">>,
         <<Image(RefEmpty), Image(RefAbsolute)>>),
    Page(<<"/","6">>,
         H2 \o <<"/","6",".","h","t","m","l">>,
         <<Button>>),
    Page(<<"/","7","/","s">>,
         H1 \o <<"/","7","/","s",".","h","t","m","l">>,
         <<Image(RefSuffixed)>>) >>

RECURSIVE SeqsUpTo(_, _)
SeqsUpTo(S, n) ==
  IF n = 0 THEN {<<>>}
  ELSE LET shorter == SeqsUpTo(S, n - 1)
       IN shorter \cup {Append(s, x) : s \in {t \in shorter : Len(t) = n - 1}, x \in S}

\* a list of pages of the catalogue, named by their positions in it
PageList(choice) == [p \in 1..Len(choice) |-> PageCatalogue[choice[p]]]
PageChoices == SeqsUpTo(1..Len(PageCatalogue), MaxPages)

(***************************************************************************)
(* State                                                                   *)
(***************************************************************************)
VARIABLES
  pages,      \* createJcrPackage argument: the pages
  siteName,   \* createJcrPackage argument: the site-name configuration
  jcrPages,   \* module-level cache: array of pages, or the pending promise
  jcrAssets,  \* module-level cache: array of assets
  pc,         \* where createJcrPackage stands
  i,          \* loop index of the for loop createJcrPackage is in
  tasks,      \* the async map callbacks of getJcrPages, one per page
  zip,        \* zip.file(path, content) calls, in call order
  files,      \* saveFile(dirHandle, path, content) calls, in call order
  fetches,    \* fetch(href) calls, in call order
  inflight,   \* indices into fetches of the requests not yet settled
  anomalies,  \* retrievals so far that did not answer 200 + content-type
  outcome,    \* promise returned by createJcrPackage
  archive,    \* zip.generateAsync(...).then(saveFile) chain
  call,       \* function call under test (function-level specifications)
  ret         \* what that call returned

vars == <<pages, siteName, jcrPages, jcrAssets, pc, i, tasks, zip, files,
          fetches, inflight, anomalies, outcome, archive, call, ret>>

Promise == [kind |-> "promise"]
NoCall == [kind |-> "none"]

(***************************************************************************)
(* fetch and fetchAssetData                                                *)
(***************************************************************************)
Blob(href) == [kind |-> "blob", of |-> href]

\* what a fetch can settle to: a response, or a rejection
Responses(href) ==
  << [kind |-> "response", ok |-> TRUE, contentType |-> ServerContentType, blob |-> Blob(href)],
     [kind |-> "response", ok |-> TRUE, contentType |-> Null, blob |-> Blob(href)],
     [kind |-> "response", ok |-> FALSE, contentType |-> Null, blob |-> Blob(href)],
     [kind |-> "reject"] >>

IsAnomaly(resp) ==
  resp.kind = "reject" \/ ~resp.ok \/ resp.contentType = Null

\* the asset after the await of fetchAssetData, or the TypeError of
\* destructuring the undefined that .catch resolves to
fetchAssetData(asset, resp) ==
  IF ~Truthy(asset.url) THEN asset
  ELSE
    LET settled == IF resp.kind = "reject" THEN Undefined
                   ELSE IF ~resp.ok THEN [blob |-> Null, mimeType |-> Null]
                   ELSE [blob |-> resp.blob, mimeType |-> resp.contentType]
    IN IF settled = Undefined THEN TypeError
       ELSE [asset EXCEPT
               !.blob = settled.blob,
               !.mimeType = IF Truthy(settled.mimeType) THEN settled.mimeType
                            ELSE getMimeTypeFromExtension(
                                   Pop(Split(asset.url.pathname, ".")))]

(***************************************************************************)
(* getProcessedJcr: one run of it is a task; it suspends at each fetch     *)
(***************************************************************************)
\* doc.querySelectorAll('[fileReference]'): positions of the elements that
\* carry the attribute, in document order
Images(doc) ==
  SelectSeq([e \in 1..Len(doc) |-> e], LAMBDA e : doc[e].fileReference # Undefined)

\* a task: its state, the image index k it stands at, the document as
\* rewritten so far and, while it waits for a fetch, its locals asset and
\* processedFileRef
Task(st, k, doc, asset, processedFileRef) ==
  [st |-> st, k |-> k, doc |-> doc, asset |-> asset,
   processedFileRef |-> processedFileRef]

\* the loop of getProcessedJcr from image k on, up to its next suspension:
\* the fetch of an external reference, the end of the loop, or a throw
RECURSIVE getProcessedJcr(_, _, _, _)

\* image.setAttribute('fileReference', processedFileRef) and the next round
SetFileReference(doc, k, pageUrl, site, processedFileRef) ==
  getProcessedJcr([doc EXCEPT ![Images(doc)[k]].fileReference = processedFileRef],
                  k + 1, pageUrl, site)

\* the body of 'if (fileReference.startsWith('http'))', given the asset
ProbeExternal(doc, k, pageUrl, site, processedFileRef, asset) ==
  IF ~asset.add
  THEN Task("fetching", k, doc, asset, processedFileRef)
  ELSE SetFileReference(doc, k, pageUrl, site, processedFileRef)

\* one round of the loop, given the processedFileRef of its first statement
RewriteImage(doc, k, pageUrl, site, fileReference, processedFileRef) ==
  IF IsThrow(processedFileRef)
  THEN Task("rejected", k, doc, Undefined, Undefined)
  ELSE IF StartsWith(fileReference, Http)
  THEN ProbeExternal(doc, k, pageUrl, site, processedFileRef,
                     getAsset(fileReference, pageUrl, site))
  ELSE SetFileReference(doc, k, pageUrl, site, processedFileRef)

getProcessedJcr(doc, k, pageUrl, site) ==
  IF k > Len(Images(doc))
  THEN Task("resolved", k, doc, Undefined, Undefined)
  ELSE RewriteImage(doc, k, pageUrl, site,
                    doc[Images(doc)[k]].fileReference,
                    getProcessedFileRef(doc[Images(doc)[k]].fileReference, pageUrl, site))

\* the statements after 'await fetchAssetData(asset)', given the asset as
\* fetchAssetData left it
AfterProbe(task, pageUrl, site, asset) ==
  IF IsThrow(asset)
  THEN Task("rejected", task.k, task.doc, Undefined, Undefined)
  ELSE SetFileReference(
         IF Truthy(asset.mimeType)
         THEN [task.doc EXCEPT
                 ![Images(task.doc)[task.k]].fileReferenceMimeType = asset.mimeType]
         ELSE task.doc,
         task.k, pageUrl, site, task.processedFileRef)

\* getProcessedJcr resumed by the settling of the fetch it waits for
ResumeProcessedJcr(task, resp, pageUrl, site) ==
  AfterProbe(task, pageUrl, site, fetchAssetData(task.asset, resp))

\* the request a suspended task has issued
TaskFetch(task, p) ==
  [href |-> task.asset.url.href, by |-> "getProcessedJcr", page |-> p,
   index |-> task.k, result |-> "pending"]

\* the element of jcrPages built by the map callback of getJcrPages
JcrPageAt(page, processedXml, jcrPath) ==
  [path |-> page.path,
   sourceXml |-> page.data,
   processedXml |-> processedXml,
   jcrPath |-> jcrPath,
   contentXmlPath |-> JcrRoot \o jcrPath \o ContentXml,
   url |-> page.url]

JcrPage(page, processedXml, site) ==
  JcrPageAt(page, processedXml, getJcrPagePath(page.path, site))

(***************************************************************************)
(* getJcrAssets, getJcrPaths                                               *)
(***************************************************************************)
\* every included asset is pushed, seen before or not
PushAlways(assets, asset) ==
  IF asset # Null /\ asset.add THEN Append(assets, asset) ELSE assets

\* 'add if not a duplicate'
PushIfNew(assets, asset) ==
  IF asset # Null /\ asset.add
     /\ ~\E n \in 1..Len(assets) : assets[n].jcrPath = asset.jcrPath
  THEN Append(assets, asset)
  ELSE assets

\* the nested for loops of getJcrAssets: page p, image j, assets pushed so far
RECURSIVE AssetLoop(_, _, _, _, _)
AssetLoop(pgs, site, p, j, assets) ==
  IF p > Len(pgs) THEN assets
  ELSE IF j > Len(Images(pgs[p].sourceXml))
  THEN AssetLoop(pgs, site, p + 1, 1, assets)
  ELSE AssetLoop(pgs, site, p, j + 1,
         PushIfNew(assets,
           getAsset(pgs[p].sourceXml[Images(pgs[p].sourceXml)[j]].fileReference,
                    pgs[p].url, site)))

\* getJcrAssets once getJcrPages has answered with the array cachedPages
getJcrAssets(cachedPages, cachedAssets, site) ==
  IF Len(cachedAssets) = 0
  THEN AssetLoop(cachedPages, site, 1, 1, cachedAssets)
  ELSE cachedAssets

getResourcePaths(resources, isAsset) ==
  LET mapped == [n \in 1..Len(resources) |->
                   IF (isAsset /\ resources[n].add /\ Truthy(resources[n].jcrPath))
                      \/ (~isAsset /\ Truthy(resources[n].jcrPath))
                   THEN resources[n].jcrPath
                   ELSE Null]
  IN SelectSeq(mapped, LAMBDA path : path # Null)

\* the asset paths pushed before the page paths
AssetPathsFirst(cachedPages, cachedAssets) ==
  getResourcePaths(cachedAssets, TRUE) \o getResourcePaths(cachedPages, FALSE)

\* getJcrPaths once both caches have answered
getJcrPaths(cachedPages, cachedAssets) ==
  getResourcePaths(cachedPages, FALSE) \o getResourcePaths(cachedAssets, TRUE)

(***************************************************************************)
(* Package entries                                                         *)
(***************************************************************************)
Entry(path, content) == [path |-> path, content |-> content]

getAssetXml(mimeType) == [xml |-> "dam:Asset", format |-> mimeType]
getFilterXml(jcrPaths) == [xml |-> "workspaceFilter", filters |-> jcrPaths]
getPropertiesXml(packageName) == [xml |-> "properties", name |-> packageName]

\* saveFile(dirHandle, path, content) of filesystem.js: the file is written
saveFile(saved, path, content) == Append(saved, Entry(path, content))

\* zip.file(path, content)
zipFile(archiveEntries, path, content) == Append(archiveEntries, Entry(path, content))

(***************************************************************************)
(* createJcrPackage, one action per stretch between two suspensions        *)
(***************************************************************************)
Init ==
  /\ \E choice \in PageChoices : pages = PageList(choice)
  /\ siteName \in BuildSiteNames
  /\ jcrPages = <<>>
  /\ jcrAssets = <<>>
  /\ pc = "call"
  /\ i = 0
  /\ tasks = <<>>
  /\ zip = <<>>
  /\ files = <<>>
  /\ fetches = <<>>
  /\ inflight = {}
  /\ anomalies = 0
  /\ outcome = "pending"
  /\ archive = "none"
  /\ call = NoCall
  /\ ret = NoCall

\* the requests issued by the tasks among started that now wait for a fetch
RECURSIVE TaskFetches(_, _)
TaskFetches(started, p) ==
  IF p > Len(started) THEN <<>>
  ELSE (IF started[p].st = "fetching" THEN <<TaskFetch(started[p], p)>> ELSE <<>>)
         \o TaskFetches(started, p + 1)

\* fetch(href) is called for each request of issued
Issue(issued) ==
  /\ fetches' = fetches \o issued
  /\ inflight' = inflight \cup (Len(fetches) + 1)..(Len(fetches) + Len(issued))

\* jcrPages = Promise.all(pages.map(...)): started are the callbacks, each
\* run up to its first suspension
StartPages(started) ==
  /\ jcrPages' = Promise
  /\ tasks' = started
  /\ Issue(TaskFetches(started, 1))

\* createJcrPackage up to its first await: the empty-list return, init(),
\* and getJcrPages, whose map starts every page's callback in page order
CreateJcrPackage ==
  /\ pc = "call"
  /\ IF Len(pages) = 0
     THEN /\ pc' = "returned"
          /\ outcome' = "resolved"
          /\ UNCHANGED <<jcrPages, jcrAssets, tasks, fetches, inflight>>
     ELSE /\ jcrAssets' = <<>>
          /\ StartPages([p \in 1..Len(pages) |->
                           getProcessedJcr(pages[p].data, 1, pages[p].url, siteName)])
          /\ pc' = "awaitPages"
          /\ UNCHANGED outcome
  /\ UNCHANGED <<pages, siteName, i, zip, files, anomalies, archive, call, ret>>

\* how a request ended: res.ok, !res.ok, or the rejection of fetch
Settled(resp) ==
  IF resp.kind = "reject" THEN "reject"
  ELSE IF resp.ok THEN "ok" ELSE "status"

\* a fetch may settle to resp: the count of anomalies stays within its bound
Settle(resp) ==
  /\ IsAnomaly(resp) => anomalies < MaxAnomalies
  /\ anomalies' = IF IsAnomaly(resp) THEN anomalies + 1 ELSE anomalies

\* task p goes on as resumed once request n has settled as result
Resume(p, n, result, resumed) ==
  /\ tasks' = [tasks EXCEPT ![p] = resumed]
  /\ fetches' = [fetches EXCEPT ![n].result = result]
                  \o (IF resumed.st = "fetching"
                      THEN <<TaskFetch(resumed, p)>> ELSE <<>>)
  /\ inflight' = (inflight \ {n})
                   \cup (IF resumed.st = "fetching" THEN {Len(fetches) + 1} ELSE {})

\* the fetch a page's rewriting waits for settles; the rewriting goes on to
\* its next suspension
RewriteFetchSettles(p) ==
  /\ p \in 1..Len(tasks)
  /\ tasks[p].st = "fetching"
  /\ \E r \in 1..Len(Responses(tasks[p].asset.url.href)) :
       /\ Settle(Responses(tasks[p].asset.url.href)[r])
       /\ Resume(p,
                 CHOOSE n \in inflight :
                   fetches[n].by = "getProcessedJcr" /\ fetches[n].page = p,
                 Settled(Responses(tasks[p].asset.url.href)[r]),
                 ResumeProcessedJcr(tasks[p], Responses(tasks[p].asset.url.href)[r],
                                    pages[p].url, siteName))
  /\ UNCHANGED <<pages, siteName, jcrPages, jcrAssets, pc, i, zip, files,
                 outcome, archive, call, ret>>

\* Promise.all rejects as soon as one callback has thrown: the await of
\* createJcrPackage throws and the build is over
PagesRejected ==
  /\ pc = "awaitPages"
  /\ \E p \in 1..Len(tasks) : tasks[p].st = "rejected"
  /\ pc' = "returned"
  /\ outcome' = "rejected"
  /\ UNCHANGED <<pages, siteName, jcrPages, jcrAssets, i, tasks, zip, files,
                 fetches, inflight, anomalies, archive, call, ret>>

\* Promise.all resolves: jcrPages = await getJcrPages(pages, siteName)
PagesResolved ==
  /\ pc = "awaitPages"
  /\ \A p \in 1..Len(tasks) : tasks[p].st = "resolved"
  /\ jcrPages' = [p \in 1..Len(pages) |-> JcrPage(pages[p], tasks[p].doc, siteName)]
  /\ pc' = "addPages"
  /\ i' = 0
  /\ UNCHANGED <<pages, siteName, jcrAssets, tasks, zip, files, fetches,
                 inflight, anomalies, outcome, archive, call, ret>>

\* addPage
AddPageEntry(page) ==
  /\ zip' = zipFile(zip, page.contentXmlPath, page.processedXml)
  /\ files' = saveFile(files, prefix \o <<"/">> \o page.contentXmlPath, page.processedXml)

\* one round of the loop over jcrPages
AddPage ==
  /\ pc = "addPages"
  /\ i < Len(jcrPages)
  /\ AddPageEntry(jcrPages[i + 1])
  /\ i' = i + 1
  /\ UNCHANGED <<pages, siteName, jcrPages, jcrAssets, pc, tasks, fetches,
                 inflight, anomalies, outcome, archive, call, ret>>

\* the loop over jcrPages is over: jcrAssets = await getJcrAssets(pages, siteName)
CollectAssets ==
  /\ pc = "addPages"
  /\ ~(i < Len(jcrPages))
  /\ jcrAssets' = getJcrAssets(jcrPages, jcrAssets, siteName)
  /\ pc' = "addAssets"
  /\ i' = 0
  /\ UNCHANGED <<pages, siteName, jcrPages, tasks, zip, files, fetches,
                 inflight, anomalies, outcome, archive, call, ret>>

\* one round of the loop over jcrAssets, up to the fetch of fetchAssetData
AddAssetFetch ==
  /\ pc = "addAssets"
  /\ i < Len(jcrAssets)
  /\ Issue(<<[href |-> jcrAssets[i + 1].url.href, by |-> "addAsset",
              page |-> 0, index |-> i + 1, result |-> "pending"]>>)
  /\ pc' = "fetchAsset"
  /\ UNCHANGED <<pages, siteName, jcrPages, jcrAssets, i, tasks, zip, files,
                 anomalies, outcome, archive, call, ret>>

\* the rest of addAsset, given the asset as fetchAssetData left it: the
\* TypeError ends the build, else the two entries of the asset are written
AddAssetEntries(asset) ==
  IF IsThrow(asset)
  THEN /\ pc' = "returned"
       /\ outcome' = "rejected"
       /\ UNCHANGED <<jcrAssets, i, zip, files>>
  ELSE /\ jcrAssets' = [jcrAssets EXCEPT ![i + 1] = asset]
       /\ zip' = zipFile(zipFile(zip, JcrRoot \o asset.jcrPath \o ContentXml,
                                 getAssetXml(asset.mimeType)),
                         JcrRoot \o asset.jcrPath \o OriginalRendition, asset.blob)
       /\ files' = saveFile(
                     saveFile(files,
                              prefix \o <<"/">> \o JcrRoot \o asset.jcrPath \o ContentXml,
                              getAssetXml(asset.mimeType)),
                     prefix \o <<"/">> \o JcrRoot \o asset.jcrPath \o OriginalRendition,
                     asset.blob)
       /\ i' = i + 1
       /\ pc' = "addAssets"
       /\ UNCHANGED outcome

\* request n, the one addAsset waits for, settles as result
AddAssetAnswered(n, result) ==
  /\ inflight' = inflight \ {n}
  /\ fetches' = [fetches EXCEPT ![n].result = result]

\* the fetch of addAsset settles
AddAssetSettles ==
  /\ pc = "fetchAsset"
  /\ \E r \in 1..Len(Responses(jcrAssets[i + 1].url.href)) :
       /\ Settle(Responses(jcrAssets[i + 1].url.href)[r])
       /\ AddAssetEntries(fetchAssetData(jcrAssets[i + 1],
                                         Responses(jcrAssets[i + 1].url.href)[r]))
       /\ AddAssetAnswered(CHOOSE n \in inflight : fetches[n].by = "addAsset",
                           Settled(Responses(jcrAssets[i + 1].url.href)[r]))
  /\ UNCHANGED <<pages, siteName, jcrPages, tasks, archive, call, ret>>

\* addFilterXml, given the assets getJcrAssets answered to getJcrPaths
AddFilterEntry(assets) ==
  /\ jcrAssets' = assets
  /\ zip' = zipFile(zip, filterXmlPath, getFilterXml(getJcrPaths(jcrPages, assets)))
  /\ files' = saveFile(files, prefix \o <<"/">> \o filterXmlPath,
                       getFilterXml(getJcrPaths(jcrPages, assets)))

\* the loop over jcrAssets is over: addFilterXml, which asks getJcrPaths
AddFilterXml ==
  /\ pc = "addAssets"
  /\ ~(i < Len(jcrAssets))
  /\ AddFilterEntry(getJcrAssets(jcrPages, jcrAssets, siteName))
  /\ pc' = "addProperties"
  /\ UNCHANGED <<pages, siteName, jcrPages, i, tasks, fetches, inflight,
                 anomalies, outcome, archive, call, ret>>

\* addPropertiesXml
AddPropertiesEntry(propXml) ==
  /\ zip' = zipFile(zip, propXmlPath, propXml)
  /\ files' = saveFile(files, prefix \o <<"/">> \o propXmlPath, propXml)

AddPropertiesXml ==
  /\ pc = "addProperties"
  /\ AddPropertiesEntry(getPropertiesXml(getPackageName(pages, siteName)))
  /\ pc' = "generate"
  /\ UNCHANGED <<pages, siteName, jcrPages, jcrAssets, i, tasks, fetches,
                 inflight, anomalies, outcome, archive, call, ret>>

\* zip.generateAsync(...).then(...) is started and not awaited:
\* createJcrPackage returns
GenerateZip ==
  /\ pc = "generate"
  /\ archive' = "generating"
  /\ pc' = "returned"
  /\ outcome' = "resolved"
  /\ UNCHANGED <<pages, siteName, jcrPages, jcrAssets, i, tasks, zip, files,
                 fetches, inflight, anomalies, call, ret>>

\* the archive blob is ready: the then callback saves it
SaveArchive ==
  /\ archive = "generating"
  /\ files' = saveFile(files,
                prefix \o <<"/">> \o getPackageName(pages, siteName) \o ZipExtension,
                [kind |-> "zip", entries |-> zip])
  /\ archive' = "saved"
  /\ UNCHANGED <<pages, siteName, jcrPages, jcrAssets, pc, i, tasks, zip,
                 fetches, inflight, anomalies, outcome, call, ret>>

Next ==
  \/ CreateJcrPackage
  \/ \E p \in 1..MaxPages : RewriteFetchSettles(p)
  \/ PagesRejected
  \/ PagesResolved
  \/ AddPage
  \/ CollectAssets
  \/ AddAssetFetch
  \/ AddAssetSettles
  \/ AddFilterXml
  \/ AddPropertiesXml
  \/ GenerateZip
  \/ SaveArchive

Spec == Init /\ [][Next]_vars

(***************************************************************************)
(* The exported functions called on their own: the arguments are in call,  *)
(* the answer goes to ret; no package is being built.                      *)
(***************************************************************************)
NoBuild ==
  /\ pages = <<>>
  /\ jcrPages = <<>>
  /\ jcrAssets = <<>>
  /\ pc = "idle"
  /\ i = 0
  /\ tasks = <<>>
  /\ zip = <<>>
  /\ files = <<>>
  /\ fetches = <<>>
  /\ inflight = {}
  /\ anomalies = 0
  /\ outcome = "pending"
  /\ archive = "none"

Return(fn, value) ==
  /\ ret = NoCall
  /\ ret' = [fn |-> fn, value |-> value]
  /\ UNCHANGED <<pages, siteName, jcrPages, jcrAssets, pc, i, tasks, zip, files,
                 fetches, inflight, anomalies, outcome, archive, call>>

\* the references getAsset and getProcessedFileRef are called with
AssetReferences ==
  << RefRelative, RefAbsolute, RefSameOrigin, RefOtherOrigin, RefDam,
     RefNoExtension, RefBare, RefEmpty, Null >>

InitAsset ==
  /\ NoBuild
  /\ siteName \in SiteNames
  /\ \E r \in 1..Len(AssetReferences), p \in 1..Len(PageCatalogue) :
       call = [kind |-> "reference",
               fileReference |-> AssetReferences[r],
               pageUrl |-> PageCatalogue[p].url]
  /\ ret = NoCall

CallGetAsset ==
  /\ call.kind = "reference"
  /\ Return("getAsset", getAsset(call.fileReference, call.pageUrl, siteName))

CallGetProcessedFileRef ==
  /\ call.kind = "reference"
  /\ Return("getProcessedFileRef",
            getProcessedFileRef(call.fileReference, call.pageUrl, siteName))

NextAsset == CallGetAsset \/ CallGetProcessedFileRef

SpecAsset == InitAsset /\ [][NextAsset]_vars

\* the asset URLs getJcrAssetPath is called with: a path of up to MaxSegments
\* segments, below one of the roots, and up to MaxParams query parameters
PathRoots ==
  { <<>>,
    <<"/","c","o","n","t","e","n","t","/","d","a","m">>,
    <<"/","c","o","n","t","e","n","t","/","d","a","m","/","t">> }

PathSegments ==
  { <<"a">>, <<"a",".","b">>, <<"x",".","p","n","g">>, <<"p","n","g">> }

QueryParams == { <<"w","=","1">>, <<"w","=","2">>, <<"h","=","1">> }

AssetHref(root, segments, params) ==
  H1 \o root \o <<"/">> \o Join(segments, <<"/">>)
     \o (IF params = <<>> THEN <<>> ELSE <<"?">> \o Join(params, <<"&">>))

InitPath ==
  /\ NoBuild
  /\ siteName \in SiteNames
  /\ \E root \in PathRoots,
        segments \in SeqsUpTo(PathSegments, MaxSegments) \ {<<>>},
        params \in SeqsUpTo(QueryParams, MaxParams) :
       call = [kind |-> "assetUrl", assetUrl |-> URL(AssetHref(root, segments, params))]
  /\ ret = NoCall

CallGetJcrAssetPath ==
  /\ call.kind = "assetUrl"
  /\ Return("getJcrAssetPath", getJcrAssetPath(call.assetUrl, siteName))

NextPath == CallGetJcrAssetPath

SpecPath == InitPath /\ [][NextPath]_vars

\* the page paths getJcrPagePath is called with: up to MaxSegments segments,
\* with or without a leading '/', below /content or not
PagePathRoots == { <<>>, <<"/","c","o","n","t","e","n","t">> }

PagePathSegments ==
  { <<"c","o","n","t","e","n","t">>, <<"r","e","p","o">>, <<"s","_","1">>,
    <<"r","e","p","o","x">>, <<"p">> }

InitPage ==
  /\ NoBuild
  /\ siteName \in SiteNames
  /\ \/ \E root \in PagePathRoots, lead \in {<<>>, <<"/">>},
           segments \in SeqsUpTo(PagePathSegments, MaxSegments) :
          call = [kind |-> "pagePath",
                  path |-> root \o lead \o Join(segments, <<"/">>),
                  sourcePath |-> root \o lead \o Join(segments, <<"/">>),
                  again |-> FALSE]
     \/ \E choice \in PageChoices :
          call = [kind |-> "packageName", pages |-> PageList(choice)]
  /\ ret = NoCall

CallGetJcrPagePath ==
  /\ call.kind = "pagePath"
  /\ Return("getJcrPagePath", getJcrPagePath(call.path, siteName))

\* the answer of getJcrPagePath is mapped once more, with the same site name
MapAgain ==
  /\ call.kind = "pagePath"
  /\ ~call.again
  /\ ret # NoCall
  /\ call' = [call EXCEPT !.path = ret.value, !.again = TRUE]
  /\ ret' = NoCall
  /\ UNCHANGED <<pages, siteName, jcrPages, jcrAssets, pc, i, tasks, zip, files,
                 fetches, inflight, anomalies, outcome, archive>>

CallGetPackageName ==
  /\ call.kind = "packageName"
  /\ Return("getPackageName", getPackageName(call.pages, siteName))

NextPage == CallGetJcrPagePath \/ MapAgain \/ CallGetPackageName

SpecPage == InitPage /\ [][NextPage]_vars

\* the site name configurations getSiteName is called with: a run of up to
\* MaxRun equal characters, followed by at most one further character;
\* 'a', U+00DF (replaced by 'ss'), ' ', '-' and U+20AC (outside the table)
NameCodes == { 97, 223, 32, 45, 8364 }

InitName ==
  /\ NoBuild
  /\ \E c \in NameCodes, n \in 0..MaxRun, last \in SeqsUpTo(NameCodes, 1) :
       siteName = [k \in 1..n |-> c] \o last
  /\ call = [kind |-> "siteName"]
  /\ ret = NoCall

CallGetSiteName ==
  /\ call.kind = "siteName"
  /\ Return("getSiteName", getSiteName(siteName))

NextName == CallGetSiteName

SpecName == InitName /\ [][NextName]_vars

(***************************************************************************)
(* getJcrPages, getJcrAssets and getJcrPaths called in a row, each call    *)
(* awaited before the next is made, and no init() in between.  pc tells    *)
(* what the module variable jcrPages is bound to: "array", or a promise    *)
(* "fulfilled" with the array held in jcrPages, or a "rejected" promise.   *)
(* pages and siteName are the arguments of the latest call; ret lists the  *)
(* answers so far.                                                         *)
(***************************************************************************)
\* getProcessedJcr run to its end, each of its fetches answered with the
\* r-th response
RECURSIVE Finish(_, _, _, _)
Finish(task, r, pageUrl, site) ==
  IF task.st = "fetching"
  THEN Finish(ResumeProcessedJcr(task, Responses(task.asset.url.href)[r], pageUrl, site),
              r, pageUrl, site)
  ELSE task

\* the map callbacks of getJcrPages, settled
Rewrite(pgs, site, r) ==
  [p \in 1..Len(pgs) |->
     Finish(getProcessedJcr(pgs[p].data, 1, pgs[p].url, site), r, pgs[p].url, site)]

Bound(kind, array) == [kind |-> kind, array |-> array]

\* Promise.all(pages.map(...)), settled: given the settled callbacks
PromiseAll(pgs, site, done) ==
  IF \E p \in 1..Len(done) : done[p].st = "rejected"
  THEN Bound("rejected", <<>>)
  ELSE Bound("fulfilled", [p \in 1..Len(pgs) |-> JcrPage(pgs[p], done[p].doc, site)])

\* getJcrPages: what jcrPages is bound to when it returns; a promise has no
\* length, so only an empty array is replaced
getJcrPages(bound, pgs, site, r) ==
  IF bound.kind = "array" /\ Len(bound.array) = 0
  THEN PromiseAll(pgs, site, Rewrite(pgs, site, r))
  ELSE bound

\* the module variables as a call leaves them, and whether it threw
Module(kind, array, assets, threw) ==
  [kind |-> kind, jcrPages |-> array, jcrAssets |-> assets, threw |-> threw]

\* the body of 'if (jcrAssets.length === 0)' of getJcrAssets, given what
\* getJcrPages returned
CollectFrom(bound, site) ==
  IF bound.kind = "rejected" THEN Module("rejected", <<>>, <<>>, TRUE)
  ELSE Module("array", bound.array, AssetLoop(bound.array, site, 1, 1, <<>>), FALSE)

\* getJcrAssets that collects at every call and appends to what it has
CollectedAgain(kind, array, assets, pgs, site, r) ==
  Module(CollectFrom(getJcrPages(Bound(kind, array), pgs, site, r), site).kind,
         CollectFrom(getJcrPages(Bound(kind, array), pgs, site, r), site).jcrPages,
         assets \o CollectFrom(getJcrPages(Bound(kind, array), pgs, site, r), site).jcrAssets,
         CollectFrom(getJcrPages(Bound(kind, array), pgs, site, r), site).threw)

getJcrAssetsModule(kind, array, assets, pgs, site, r) ==
  IF Len(assets) = 0
  THEN CollectFrom(getJcrPages(Bound(kind, array), pgs, site, r), site)
  ELSE Module(kind, array, assets, FALSE)

\* getJcrPaths after its 'jcrPages = await getJcrPages(...)'
getJcrPathsAwaited(bound, assets, pgs, site, r) ==
  IF bound.kind = "rejected" THEN Module("rejected", <<>>, assets, TRUE)
  ELSE getJcrAssetsModule("array", bound.array, assets, pgs, site, r)

\* the arguments of the calls: page lists named by catalogue positions, each
\* with a site name configuration
CallArguments ==
  << [choice |-> <<>>, site |-> SiteRepo],
     [choice |-> <<6>>, site |-> SiteRepo],
     [choice |-> <<2>>, site |-> SiteRepo],
     [choice |-> <<1>>, site |-> SiteRepo],
     [choice |-> <<1>>, site |-> SiteMixed],
     [choice |-> <<2, 1>>, site |-> SiteMixed] >>

InitCalls ==
  /\ pages = <<>>
  /\ siteName = <<>>
  /\ jcrPages = <<>>
  /\ jcrAssets = <<>>
  /\ pc = "array"
  /\ i = 0
  /\ tasks = <<>>
  /\ zip = <<>>
  /\ files = <<>>
  /\ fetches = <<>>
  /\ inflight = {}
  /\ anomalies = 0
  /\ outcome = "pending"
  /\ archive = "none"
  /\ call = NoCall
  /\ ret = <<>>

\* the call fn(pgs, site) returns: module is what it leaves, value its answer
Returns(fn, pgs, site, module, value) ==
  /\ Len(ret) < MaxCalls
  /\ pages' = pgs
  /\ siteName' = site
  /\ pc' = module.kind
  /\ jcrPages' = module.jcrPages
  /\ jcrAssets' = module.jcrAssets
  /\ ret' = Append(ret, [fn |-> fn, pages |-> pgs, siteName |-> site,
                         threw |-> module.threw,
                         value |-> IF module.threw THEN <<>> ELSE value])
  /\ UNCHANGED <<i, tasks, zip, files, fetches, inflight, anomalies, outcome,
                 archive, call>>

PagesReturned(pgs, site, bound) ==
  Returns("getJcrPages", pgs, site,
          Module(bound.kind, bound.array, jcrAssets, bound.kind = "rejected"),
          bound.array)

CallGetJcrPages ==
  \E a \in 1..Len(CallArguments), r \in 1..Len(Responses(<<>>)) :
    /\ Len(ret) < MaxCalls
    /\ PagesReturned(PageList(CallArguments[a].choice), CallArguments[a].site,
                     getJcrPages(Bound(pc, jcrPages), PageList(CallArguments[a].choice),
                                 CallArguments[a].site, r))

AssetsReturned(pgs, site, module) ==
  Returns("getJcrAssets", pgs, site, module, module.jcrAssets)

CallGetJcrAssets ==
  \E a \in 1..Len(CallArguments), r \in 1..Len(Responses(<<>>)) :
    /\ Len(ret) < MaxCalls
    /\ AssetsReturned(PageList(CallArguments[a].choice), CallArguments[a].site,
                      getJcrAssetsModule(pc, jcrPages, jcrAssets,
                                         PageList(CallArguments[a].choice),
                                         CallArguments[a].site, r))

PathsReturned(pgs, site, module) ==
  Returns("getJcrPaths", pgs, site, module,
          IF module.threw THEN <<>> ELSE getJcrPaths(module.jcrPages, module.jcrAssets))

CallGetJcrPaths ==
  \E a \in 1..Len(CallArguments), r \in 1..Len(Responses(<<>>)) :
    /\ Len(ret) < MaxCalls
    /\ PathsReturned(PageList(CallArguments[a].choice), CallArguments[a].site,
                     getJcrPathsAwaited(
                       getJcrPages(Bound(pc, jcrPages), PageList(CallArguments[a].choice),
                                   CallArguments[a].site, r),
                       jcrAssets, PageList(CallArguments[a].choice),
                       CallArguments[a].site, r))

NextCalls == CallGetJcrPages \/ CallGetJcrAssets \/ CallGetJcrPaths

SpecCalls == InitCalls /\ [][NextCalls]_vars

(***************************************************************************)
(* Two createJcrPackage calls made one after the other without awaiting    *)
(* the first: createJcrPackage(d, pagesA, siteA); createJcrPackage(d,      *)
(* pagesB, siteB).  Each call runs up to its first await; from then on the *)
(* two builds go on in turns, a turn ending where the running build is     *)
(* suspended.  The variables pages, siteName, pc, i, tasks, zip, fetches,  *)
(* inflight, outcome and archive are the locals of the running build, call *)
(* holds those of the other one; jcrPages, jcrAssets and the saved files   *)
(* are the module's and the directory's, the same for both.                *)
(***************************************************************************)
\* the locals of a build
Frame(build, pgs, site, at, index, callbacks, entries, requests, waiting, promise, blob) ==
  [build |-> build, pages |-> pgs, siteName |-> site, pc |-> at, i |-> index,
   tasks |-> callbacks, zip |-> entries, fetches |-> requests, inflight |-> waiting,
   outcome |-> promise, archive |-> blob]

\* a build at the first await of createJcrPackage, given the callbacks that
\* getJcrPages started; the requests they issued are in flight
StartedWith(build, pgs, site, callbacks) ==
  Frame(build, pgs, site, "awaitPages", 0, callbacks, <<>>,
        TaskFetches(callbacks, 1), 1..Len(TaskFetches(callbacks, 1)),
        "pending", "none")

\* createJcrPackage(d, pgs, site) up to its first await
FirstStretch(build, pgs, site) ==
  StartedWith(build, pgs, site,
              [p \in 1..Len(pgs) |-> getProcessedJcr(pgs[p].data, 1, pgs[p].url, site)])

\* the page lists and site names of the two calls
TwoBuilds ==
  << [first |-> <<2>>, second |-> <<6>>],
     [first |-> <<6>>, second |-> <<1>>] >>

\* both calls have been made: the second init() and getJcrPages came last
BothCalled(running, other) ==
  /\ pages = running.pages
  /\ siteName = running.siteName
  /\ pc = running.pc
  /\ i = running.i
  /\ tasks = running.tasks
  /\ zip = running.zip
  /\ fetches = running.fetches
  /\ inflight = running.inflight
  /\ outcome = running.outcome
  /\ archive = running.archive
  /\ call = other
  /\ jcrPages = Promise
  /\ jcrAssets = <<>>
  /\ files = <<>>
  /\ anomalies = 0
  /\ ret = NoCall

InitTwo ==
  \E b \in 1..Len(TwoBuilds) :
    BothCalled(FirstStretch(2, PageList(TwoBuilds[b].second), SiteRepo),
               FirstStretch(1, PageList(TwoBuilds[b].first), SiteMixed))

\* the running build is suspended or over: it awaits Promise.all, a fetch
\* or a saveFile (not merely the promise of a function that has returned)
Suspended ==
  \/ pc \in {"awaitPages", "fetchAsset", "addProperties", "generate", "returned"}
  \/ pc \in {"addPages", "addAssets"} /\ i > 0

\* the other build goes on
Switch ==
  /\ Suspended
  /\ call.pc # "returned" \/ call.archive = "generating"
  /\ call' = Frame(3 - call.build, pages, siteName, pc, i, tasks, zip, fetches,
                   inflight, outcome, archive)
  /\ pages' = call.pages
  /\ siteName' = call.siteName
  /\ pc' = call.pc
  /\ i' = call.i
  /\ tasks' = call.tasks
  /\ zip' = call.zip
  /\ fetches' = call.fetches
  /\ inflight' = call.inflight
  /\ outcome' = call.outcome
  /\ archive' = call.archive
  /\ UNCHANGED <<jcrPages, jcrAssets, files, anomalies, ret>>

NextTwo ==
  \/ \E p \in 1..MaxPages : RewriteFetchSettles(p)
  \/ PagesRejected
  \/ PagesResolved
  \/ AddPage
  \/ CollectAssets
  \/ AddAssetFetch
  \/ AddAssetSettles
  \/ AddFilterXml
  \/ AddPropertiesXml
  \/ GenerateZip
  \/ SaveArchive
  \/ Switch

SpecTwo == InitTwo /\ [][NextTwo]_vars

(***************************************************************************)
(* Properties.  The operators below read the input pages on their own, so  *)
(* that what the build collected is compared with what the pages hold.     *)
(***************************************************************************)
\* the classification of every fileReference of page p, in element order
RECURSIVE OccurrencesFrom(_)
OccurrencesOnPage(p) ==
  [j \in 1..Len(Images(pages[p].data)) |->
     [page |-> p, element |-> Images(pages[p].data)[j],
      asset |-> getAsset(pages[p].data[Images(pages[p].data)[j]].fileReference,
                         pages[p].url, siteName)]]

\* ... of pages p, p + 1, ..., in page order then element order
OccurrencesFrom(p) ==
  IF p > Len(pages) THEN <<>>
  ELSE OccurrencesOnPage(p) \o OccurrencesFrom(p + 1)

Occurrences == OccurrencesFrom(1)

IsIncluded(occ) == occ.asset # Null /\ occ.asset.add

IncludedOccurrences == SelectSeq(Occurrences, IsIncluded)

\* positions in occs of the first occurrence of each jcrPath
FirstSeen(occs) ==
  SelectSeq([n \in 1..Len(occs) |-> n],
            LAMBDA n : \A m \in 1..(n - 1) : occs[m].asset.jcrPath # occs[n].asset.jcrPath)

\* the pages have been rewritten: jcrPages is the array of processed pages
Rewritten ==
  /\ pc \notin {"call", "awaitPages", "idle"}
  /\ \A p \in 1..Len(tasks) : tasks[p].st = "resolved"

BinaryPath(jcrPath) == JcrRoot \o jcrPath \o OriginalRendition

\* how many entries of the archive are written at path
EntriesAt(path) == Cardinality({n \in 1..Len(zip) : zip[n].path = path})

\* the requests of addAsset that ask for href
AssetFetchesOf(href) ==
  {n \in 1..Len(fetches) : fetches[n].by = "addAsset" /\ fetches[n].href = href}

\* the collected list is firsts, and each of its assets is retrieved at most
\* once and written as at most one binary entry
FirstOccurrencesKept(firsts) ==
  /\ Len(jcrAssets) = Len(firsts)
  /\ \A n \in 1..Len(jcrAssets) :
       /\ jcrAssets[n].fileReference = firsts[n].asset.fileReference
       /\ jcrAssets[n].url = firsts[n].asset.url
       /\ jcrAssets[n].jcrPath = firsts[n].asset.jcrPath
       /\ Cardinality({f \in 1..Len(fetches) :
                         fetches[f].by = "addAsset" /\ fetches[f].index = n}) <= 1
       /\ EntriesAt(BinaryPath(jcrAssets[n].jcrPath)) <= 1
  /\ \A f \in 1..Len(fetches) :
       fetches[f].by = "addAsset" =>
         fetches[f].href = jcrAssets[fetches[f].index].url.href

\* every rewritten reference of occs is the jcrPath of its asset
RewrittenTo(occs) ==
  \A o \in 1..Len(occs) :
    jcrPages[occs[o].page].processedXml[occs[o].element].fileReference
      = occs[o].asset.jcrPath

DeduplicationOver(occs) ==
  /\ Len(jcrAssets) > 0 =>
       FirstOccurrencesKept([n \in 1..Len(FirstSeen(occs)) |-> occs[FirstSeen(occs)[n]]])
  /\ Rewritten => RewrittenTo(occs)

\* C1: within one run no two collected assets share a jcrPath; the list is
\* the first occurrence of each jcrPath in page order then element order;
\* each of them is retrieved at most once and written as at most one binary
\* entry; and every rewritten reference to an included asset is its jcrPath.
DeduplicationInvariant ==
  /\ \A m, n \in 1..Len(jcrAssets) :
       m # n => jcrAssets[m].jcrPath # jcrAssets[n].jcrPath
  /\ (Len(jcrAssets) > 0 \/ Rewritten) => DeduplicationOver(IncludedOccurrences)

\* two occurrences of occs on different pages share a jcrPath, retrieved
\* once and written as one binary entry
SharedAcrossPages(occs) ==
  \E a, b \in 1..Len(occs) :
    /\ occs[a].page # occs[b].page
    /\ occs[a].asset.jcrPath = occs[b].asset.jcrPath
    /\ EntriesAt(BinaryPath(occs[a].asset.jcrPath)) = 1
    /\ Cardinality(AssetFetchesOf(occs[a].asset.url.href)) = 1

\* C1 happens: the archive is saved of a run in which two pages reference
\* assets of one jcrPath
DeduplicationWitness ==
  archive = "saved" /\ SharedAcrossPages(IncludedOccurrences)

\* the filter manifests written to the archive, in the order written
Manifests == SelectSeq(zip, LAMBDA e : e.path = filterXmlPath)

\* path is a filter root of every manifest written
ManifestLists(path) ==
  \A m \in 1..Len(Manifests) :
    \E n \in 1..Len(Manifests[m].content.filters) :
      Manifests[m].content.filters[n] = path

\* the requests of addAsset that ended in a non-success status or a rejection
FailedAssetFetches ==
  {f \in 1..Len(fetches) :
     fetches[f].by = "addAsset" /\ fetches[f].result \in {"status", "reject"}}

\* C2: a failed retrieval of an included asset never aborts the build: the
\* caller sees no failure and, once the build has returned, the manifest
\* lists the failed asset's jcrPath and the archive is under way.
RetrievalFailureTolerated ==
  \A f \in FailedAssetFetches :
    /\ outcome # "rejected"
    /\ pc = "returned" =>
         /\ Len(Manifests) = 1
         /\ ManifestLists(jcrAssets[fetches[f].index].jcrPath)
         /\ archive # "none"

\* C2, the half the code keeps: a retrieval ended in a non-success status
\* and the archive is saved, its manifest listing the asset
StatusFailureTolerated ==
  /\ archive = "saved"
  /\ \E f \in FailedAssetFetches :
       /\ fetches[f].result = "status"
       /\ ManifestLists(jcrAssets[fetches[f].index].jcrPath)

\* C3: classifying an empty or null reference does not fail: getAsset
\* answers add = false, no url, no jcrPath and the raw reference as
\* processedFileRef, and getProcessedFileRef answers the reference unchanged.
EmptyReferenceClassified ==
  (ret # NoCall /\ ~Truthy(call.fileReference)) =>
    /\ ret.fn = "getAsset" =>
         /\ ret.value # Null
         /\ ~ret.value.add
         /\ IsNullish(ret.value.url)
         /\ IsNullish(ret.value.jcrPath)
         /\ ret.value.processedFileRef = call.fileReference
    /\ ret.fn = "getProcessedFileRef" =>
         /\ ~IsThrow(ret.value)
         /\ ret.value = call.fileReference

\* the page paths of the input, in input order
PagePaths == [p \in 1..Len(pages) |-> getJcrPagePath(pages[p].path, siteName)]

\* the jcrPaths of occs at the positions first, in that order
PathsAt(occs, first) == [n \in 1..Len(first) |-> occs[first[n]].asset.jcrPath]

ManifestIs(paths) ==
  \A m \in 1..Len(Manifests) : Manifests[m].content.filters = paths

ManifestOrderOver(occs) ==
  ManifestIs(PagePaths \o PathsAt(occs, FirstSeen(occs)))

\* C4: the manifest is the page paths in input page order followed by the
\* included asset paths in first-seen order (page order, then element
\* order); nothing else, and neither group reordered.
ManifestOrder ==
  Len(Manifests) > 0 => ManifestOrderOver(IncludedOccurrences)

\* C4 happens: the archive is saved with a manifest of two pages and of at
\* least two assets, the first asset of the second page among them
ManifestOrderWitness ==
  /\ archive = "saved"
  /\ Len(Manifests) = 1
  /\ Len(pages) = 2
  /\ Len(jcrAssets) >= 2
  /\ \E o \in 1..Len(IncludedOccurrences) :
       /\ IncludedOccurrences[o].page = 2
       /\ IncludedOccurrences[o].asset.jcrPath = jcrAssets[Len(jcrAssets)].jcrPath

\* the input pages are pairwise different in path
DistinctPages ==
  \A p, q \in 1..Len(pages) : p # q => pages[p].path # pages[q].path

\* C5: no path appears twice in the manifest, page paths and asset paths
\* counted together (read here for input pages of pairwise different paths).
ManifestHasNoDuplicate ==
  DistinctPages =>
  \A m \in 1..Len(Manifests) :
    \A a, b \in 1..Len(Manifests[m].content.filters) :
      a # b => Manifests[m].content.filters[a] # Manifests[m].content.filters[b]

\* the requests that ended in a non-success status or a rejection
Failed(f) == fetches[f].result \in {"status", "reject"}

\* C6: after a failed retrieval both blob and mimeType of the asset are
\* null: the asset of addAsset keeps neither, and the page element probed by
\* getProcessedJcr gets no fileReferenceMimeType.
FailedRetrievalLeavesNull ==
  \A f \in 1..Len(fetches) :
    Failed(f) =>
      /\ fetches[f].by = "addAsset" =>
           /\ IsNullish(jcrAssets[fetches[f].index].blob)
           /\ IsNullish(jcrAssets[fetches[f].index].mimeType)
      /\ fetches[f].by = "getProcessedJcr" =>
           tasks[fetches[f].page]
             .doc[Images(tasks[fetches[f].page].doc)[fetches[f].index]]
             .fileReferenceMimeType = Undefined

\* C7: every result of getAsset has add true exactly if jcrPath is set, and
\* then processedFileRef is the jcrPath; with add false processedFileRef is
\* the raw reference.
ClassificationInvariant ==
  (ret # NoCall /\ ret.fn = "getAsset") =>
    /\ ret.value # Null
    /\ ret.value.add <=> ~IsNullish(ret.value.jcrPath)
    /\ ret.value.add => ret.value.processedFileRef = ret.value.jcrPath
    /\ ~ret.value.add => ret.value.processedFileRef = call.fileReference

\* the reference of occurrence occ as the page holds it
RawReference(occ) == pages[occ.page].data[occ.element].fileReference

IsHttp(occ) == occ.asset # Null /\ StartsWith(RawReference(occ), Http)

\* the occurrence is classified as its origin tells
ClassifiedByOrigin(occ, ref, host) ==
  /\ occ.asset.add <=> (URL(ref).origin = host)
  /\ occ.asset.add =>
       /\ occ.asset.jcrPath = getJcrAssetPath(URL(ref), siteName)
       /\ occ.asset.processedFileRef = occ.asset.jcrPath
  /\ ~occ.asset.add =>
       /\ occ.asset.url = URL(ref)
       /\ IsNullish(occ.asset.jcrPath)
       /\ occ.asset.processedFileRef = ref
       /\ Rewritten =>
            jcrPages[occ.page].processedXml[occ.element].fileReference = ref

\* every collected asset and every asset path of the manifest stems from an
\* occurrence of occs that is included
OnlyIncludedCollected(occs) ==
  /\ \A n \in 1..Len(jcrAssets) :
       \E o \in 1..Len(occs) :
         /\ IsIncluded(occs[o])
         /\ jcrAssets[n].fileReference = occs[o].asset.fileReference
         /\ jcrAssets[n].url = occs[o].asset.url
         /\ jcrAssets[n].jcrPath = occs[o].asset.jcrPath
  /\ \A m \in 1..Len(Manifests) :
       \A n \in (Len(pages) + 1)..Len(Manifests[m].content.filters) :
         \E o \in 1..Len(occs) :
           /\ IsIncluded(occs[o])
           /\ Manifests[m].content.filters[n] = occs[o].asset.jcrPath

BundledBySameOrigin(occs) ==
  /\ \A o \in 1..Len(occs) :
       IsHttp(occs[o]) =>
         ClassifiedByOrigin(occs[o], RawReference(occs[o]),
                            URL(pages[occs[o].page].url).origin)
  /\ OnlyIncludedCollected(occs)

\* C8: a reference that starts with http is bundled exactly if its origin is
\* the origin of its page; of another origin it keeps its parsed url, has
\* no jcrPath, stays as it is in the markup and enters neither the
\* collected list nor the manifest.
SameOriginBundled == BundledBySameOrigin(Occurrences)

\* a page of occs holds an http reference of its own origin and one of
\* another origin
BothOrigins(occs) ==
  \E a, b \in 1..Len(occs) :
    /\ occs[a].page = occs[b].page
    /\ IsHttp(occs[a]) /\ occs[a].asset.add
    /\ IsHttp(occs[b]) /\ ~occs[b].asset.add

\* C8 happens: the archive is saved of a run with such a page
SameOriginWitness ==
  archive = "saved" /\ Len(jcrAssets) > 0 /\ BothOrigins(Occurrences)

\* the extension and the base of a pathname as getJcrAssetPath cuts them
CutExtension(pathname) ==
  IF Includes(pathname, <<".">>) THEN <<".">> \o Pop(Split(pathname, ".")) ELSE <<>>

CutBase(pathname) == Replace(pathname, CutExtension(pathname), <<>>)

\* the extension of the last path segment, and the pathname without it
LastSegmentExtension(pathname) ==
  IF Includes(Pop(Split(pathname, "/")), <<".">>)
  THEN <<".">> \o Pop(Split(Pop(Split(pathname, "/")), "."))
  ELSE <<>>

LastSegmentBase(pathname) ==
  SubSeq(pathname, 1, Len(pathname) - Len(LastSegmentExtension(pathname)))

\* _{key}{value} appended for each parameter occurrence, with its own value
OccurrenceSuffix(params) ==
  Join([n \in 1..Len(params) |-> <<"_">> \o params[n][1] \o params[n][2]], <<>>)

\* _{key}{params.get(key)} appended for each parameter occurrence
FirstValueSuffix(params) ==
  Join([n \in 1..Len(params) |->
          <<"_">> \o params[n][1] \o ParamGet(params, params[n][1])], <<>>)

Answered(fn) == ret # NoCall /\ ret.fn = fn

\* C9: for a path not under /content/dam/ the answer is
\* /content/dam/{siteName}{base}{suffix}{extension}, the suffix holding
\* _{key}{value} for each parameter occurrence with that occurrence's value.
SuffixPerOccurrence ==
  (Answered("getJcrAssetPath") /\ ~StartsWith(call.assetUrl.pathname, DamPrefix)) =>
    ret.value = DamPrefix \o getSiteName(siteName)
                  \o CutBase(call.assetUrl.pathname)
                  \o OccurrenceSuffix(call.assetUrl.searchParams)
                  \o CutExtension(call.assetUrl.pathname)

\* C10: the extension is what follows the final '.' of the last path
\* segment, empty if that segment has none, and the base is the pathname
\* without that trailing extension; the suffix goes between the two.
ExtensionOfLastSegment ==
  (Answered("getJcrAssetPath") /\ ~StartsWith(call.assetUrl.pathname, DamPrefix)) =>
    ret.value = DamPrefix \o getSiteName(siteName)
                  \o LastSegmentBase(call.assetUrl.pathname)
                  \o FirstValueSuffix(call.assetUrl.searchParams)
                  \o LastSegmentExtension(call.assetUrl.pathname)

\* the tokens of a path after its third segment, each preceded by '/'
AfterThirdSegment(path) ==
  Join([n \in 1..(Len(Split(path, "/")) - 4) |-> <<"/">> \o Split(path, "/")[n + 4]], <<>>)

\* C11: for an asset URL whose path without the extension of its last
\* segment begins with /content/dam/, the answer is /content/dam/, the
\* sanitized site name in place of the third segment, the remaining segments
\* unchanged and in order, and the extension; the query is ignored.
DamSegmentReplaced ==
  (Answered("getJcrAssetPath")
     /\ StartsWith(LastSegmentBase(call.assetUrl.pathname), DamPrefix)) =>
    ret.value = DamPrefix \o getSiteName(siteName)
                  \o AfterThirdSegment(LastSegmentBase(call.assetUrl.pathname))
                  \o LastSegmentExtension(call.assetUrl.pathname)

\* C11 happens where the only '.' of the path is in its last segment: the
\* site name of the source path is replaced and the query is dropped
DamSegmentWitness ==
  /\ Answered("getJcrAssetPath")
  /\ call.assetUrl.href = H1 \o <<"/","c","o","n","t","e","n","t","/","d","a","m","/","t",
                                  "/","a","/","x",".","p","n","g","?","w","=","1">>
  /\ siteName = SiteRepo
  /\ ret.value = <<"/","c","o","n","t","e","n","t","/","d","a","m","/","r","e","p","o",
                   "/","a","/","x",".","p","n","g">>


\* the page path up to its last '/': the segments but the last, joined again
ParentDirectory(pagePath) ==
  Join(SubSeq(Split(pagePath, "/"), 1, Len(Split(pagePath, "/")) - 1), <<"/">>)

\* the URL a './' reference stands for on a page
ResolvedRelative(fileReference, pageUrl) ==
  URL(URL(pageUrl).origin \o ParentDirectory(URL(pageUrl).pathname) \o Tail(fileReference))

\* C12: a reference beginning with './' is resolved on the page's origin
\* against the parent directory of the page path, is included, and its
\* jcrPath (and so the rewritten reference) is getJcrAssetPath of that
\* resolved URL; './a/x.png?w=1' on page https://h1/1/p.html of site 'repo'
\* gives /content/dam/repo/1/a/x_w1.png.
RelativeResolvedOnParent ==
  (Answered("getAsset") /\ Truthy(call.fileReference)
     /\ StartsWith(call.fileReference, DotSlash)) =>
    /\ ret.value.add
    /\ ret.value.url = ResolvedRelative(call.fileReference, call.pageUrl)
    /\ ret.value.url.origin = URL(call.pageUrl).origin
    /\ ret.value.jcrPath = getJcrAssetPath(ret.value.url, siteName)
    /\ ret.value.processedFileRef = ret.value.jcrPath
    /\ (call.pageUrl = PageCatalogue[1].url /\ siteName = SiteRepo) =>
         ret.value.jcrPath = <<"/","c","o","n","t","e","n","t","/","d","a","m","/",
                               "r","e","p","o","/","1","/","a","/","x","_","w","1",
                               ".","p","n","g">>

\* C12 happens: getAsset answered for './a/x.png?w=1' on a page below a
\* directory
RelativeWitness ==
  /\ Answered("getAsset")
  /\ Truthy(call.fileReference)
  /\ call.fileReference = RefRelative
  /\ call.pageUrl = PageCatalogue[1].url
  /\ siteName = SiteRepo
  /\ ret.value.add


\* the path is /content/{site} or below /content/{site}/: its second
\* segment is the site name
BelowSite(path, site) ==
  \/ path = ContentPrefix \o site
  \/ StartsWith(path, ContentPrefix \o site \o <<"/">>)

\* C13, as stated: for every path that starts with /content/{siteName},
\* in particular for every answer of getJcrPagePath, getJcrPagePath answers
\* the path itself.
PagePathIdempotent ==
  (Answered("getJcrPagePath")
     /\ (call.again \/ StartsWith(call.path, ContentPrefix \o getSiteName(siteName)))) =>
    ret.value = call.path

\* C13, amended: for every path whose second segment is the site name
\* (/content/{siteName} itself or a path below /content/{siteName}/), in
\* particular for the answer of getJcrPagePath to a source path that is
\* empty or begins with '/', getJcrPagePath answers the path itself.
PagePathIdempotentBelowSite ==
  (Answered("getJcrPagePath")
     /\ \/ BelowSite(call.path, getSiteName(siteName))
        \/ call.again /\ (call.sourcePath = <<>> \/ StartsWith(call.sourcePath, <<"/">>))) =>
    ret.value = call.path

\* C13 happens: the answer to a source path outside /content/ that the
\* mapping changed has been mapped again
PagePathWitness ==
  /\ Answered("getJcrPagePath")
  /\ call.again
  /\ StartsWith(call.sourcePath, <<"/", "p">>)
  /\ call.path # call.sourcePath
  /\ ret.value = call.path


\* what follows the last '/' of a path
LastSegment(path) == Substring(path, LastIndexOf(path, <<"/">>))

\* C15: getPackageName answers the sanitized site name unless the page list
\* has exactly one page, and then {siteName}_{last segment of its path}.
PackageNamed ==
  Answered("getPackageName") =>
    ret.value = IF Len(call.pages) = 1
                THEN getSiteName(siteName) \o <<"_">> \o LastSegment(call.pages[1].path)
                ELSE getSiteName(siteName)

\* C15 happens: the name of a package of the one page '/content/t/r' of
\* site 'S 1' is 's_1_r'
PackageNameWitness ==
  /\ Answered("getPackageName")
  /\ Len(call.pages) = 1
  /\ call.pages[1].path = PageCatalogue[3].path
  /\ siteName = SiteMixed
  /\ ret.value = <<"s","_","1","_","r">>


\* C14: the string getSiteName returns has at most 64 characters, a
\* replacement of two letters counting as two.
SiteNameLength ==
  Answered("getSiteName") => Len(ret.value) <= NameLimit

\* C14 happens where every replacement is one character: the name of a
\* configuration of more than 64 characters is cut at 64
SiteNameCutWitness ==
  /\ Answered("getSiteName")
  /\ Len(siteName) > NameLimit
  /\ Len(ret.value) = NameLimit


\* C16: in a build with a non-empty page list the archive is persisted
\* before createJcrPackage reports completion: whenever the promise of the
\* build is resolved, the archive is saved.
PersistedBeforeCompletion ==
  (Len(pages) > 0 /\ outcome = "resolved") => archive = "saved"

\* C16, the part that holds: when the archive is saved, the page entries,
\* the filter manifest and the package metadata are in it
SavedAfterEntries ==
  /\ archive = "saved"
  /\ \E n \in 1..Len(zip) : zip[n].path = filterXmlPath
  /\ \E n \in 1..Len(zip) : zip[n].path = propXmlPath
  /\ \A p \in 1..Len(jcrPages) :
       \E n \in 1..Len(zip) : zip[n].path = jcrPages[p].contentXmlPath


\* C19: during a build at most one fetch is in flight at any time.
OneFetchInFlight ==
  Cardinality(inflight) <= 1

\* C19, where it holds: the fetches of addAsset are issued one at a time,
\* each after the one before it has settled
AssetFetchesOneByOne ==
  /\ pc = "fetchAsset"
  /\ i > 0
  /\ Cardinality(inflight) = 1
  /\ \A n \in 1..Len(fetches) : n \notin inflight => fetches[n].result # "pending"


\* the calls up to the n-th were all made with the arguments of the first
SameArguments(answers, n) ==
  \A m \in 1..n : answers[m].pages = answers[1].pages
                  /\ answers[m].siteName = answers[1].siteName

NoPathTwice(assets) ==
  \A m, n \in 1..Len(assets) : m # n => assets[m].jcrPath # assets[n].jcrPath

\* the last entries of the answer of getJcrPaths are the paths of assets
EndsWithPathsOf(paths, assets) ==
  /\ Len(paths) >= Len(assets)
  /\ \A n \in 1..Len(assets) :
       paths[Len(paths) - Len(assets) + n] = assets[n].jcrPath

IdempotentOver(answers) ==
  \A a, b \in 1..Len(answers) :
    (a < b /\ SameArguments(answers, b) /\ answers[a].fn = "getJcrAssets") =>
      /\ answers[b].threw = answers[a].threw
      /\ answers[b].fn = "getJcrAssets" =>
           /\ answers[b].value = answers[a].value
           /\ NoPathTwice(answers[b].value)
      /\ (answers[b].fn = "getJcrPaths" /\ ~answers[b].threw) =>
           /\ EndsWithPathsOf(answers[b].value, answers[a].value)
           /\ jcrAssets = answers[a].value \/ b < Len(answers)

\* C17: with no reset in between, a repeated call of getJcrAssets with the
\* same pages and site name answers the ordered list of the first call, with
\* no asset a second time, and getJcrPaths lists the paths of that list.
AssetCollectorIdempotent ==
  IdempotentOver(ret)

\* C17 happens: getJcrAssets has answered twice for the same page and site
\* name, with a list that is not empty
RepeatedCollectWitness ==
  /\ Len(ret) >= 2
  /\ ret[1].fn = "getJcrAssets" /\ ret[2].fn = "getJcrAssets"
  /\ SameArguments(ret, 2)
  /\ Len(ret[1].value) > 0
  /\ ret[2].value = ret[1].value


\* the pages of a call as getJcrPages maps them, before any rewriting
OwnPages(pgs, site) ==
  [p \in 1..Len(pgs) |-> JcrPage(pgs[p], pgs[p].data, site)]

JcrPathsOf(resources) == [n \in 1..Len(resources) |-> resources[n].jcrPath]

\* the answer is the one the arguments of its call determine: own are the
\* pages of the call, collected the assets found on them
OwnAnswer(answer, own, collected) ==
  /\ answer.fn = "getJcrPages" =>
       /\ JcrPathsOf(answer.value) = JcrPathsOf(own)
       /\ [p \in 1..Len(answer.value) |-> answer.value[p].sourceXml]
            = [p \in 1..Len(own) |-> own[p].sourceXml]
  /\ answer.fn = "getJcrAssets" =>
       JcrPathsOf(answer.value) = JcrPathsOf(collected)
  /\ answer.fn = "getJcrPaths" =>
       answer.value = JcrPathsOf(own) \o JcrPathsOf(collected)

OwnAnswerOf(answer, own) ==
  OwnAnswer(answer, own, AssetLoop(own, answer.siteName, 1, 1, <<>>))

\* C20: every call of getJcrPages, getJcrAssets and getJcrPaths that
\* answers returns the result of the pages and site name passed to it.
AnswerOfOwnArguments ==
  \A n \in 1..Len(ret) :
    ~ret[n].threw => OwnAnswerOf(ret[n], OwnPages(ret[n].pages, ret[n].siteName))

\* C20, where it holds: the first call after the module is loaded answers
\* for its own arguments
FirstAnswerOwn ==
  /\ Len(ret) = 1
  /\ ~ret[1].threw
  /\ Len(ret[1].pages) > 0
  /\ ret[1].fn = "getJcrPaths"
  /\ OwnAnswerOf(ret[1], OwnPages(ret[1].pages, ret[1].siteName))


\* the paths of the archive entries a build of pgs and site derives from its
\* own arguments: own are its pages, collected the assets found on them
OwnEntryPaths(own, collected) ==
  { own[p].contentXmlPath : p \in 1..Len(own) }
    \cup { JcrRoot \o collected[n].jcrPath \o ContentXml : n \in 1..Len(collected) }
    \cup { JcrRoot \o collected[n].jcrPath \o OriginalRendition : n \in 1..Len(collected) }
    \cup { filterXmlPath, propXmlPath }

\* every entry of the archive is one of own's, and the filter manifest lists
\* the paths of own's pages and assets
EntriesOwn(entries, own, collected) ==
  \A n \in 1..Len(entries) :
    /\ entries[n].path \in OwnEntryPaths(own, collected)
    /\ entries[n].path = filterXmlPath =>
         entries[n].content.filters = JcrPathsOf(own) \o JcrPathsOf(collected)

EntriesOwnOf(entries, own, site) ==
  EntriesOwn(entries, own, AssetLoop(own, site, 1, 1, <<>>))

\* C18: of two builds that interleave, each emits page entries, asset
\* entries and a filter manifest derived from its own pages and site name.
BuildsIsolated ==
  EntriesOwnOf(zip, OwnPages(pages, siteName), siteName)

\* C18, what can go well: both builds are over and both archives hold the
\* entries of their own pages only
BothBuildsOwn ==
  /\ archive = "saved"
  /\ call.archive = "saved"
  /\ EntriesOwnOf(zip, OwnPages(pages, siteName), siteName)
  /\ EntriesOwnOf(call.zip, OwnPages(call.pages, call.siteName), call.siteName)

\* assets x and y are of different resources: their resolved URLs differ in
\* the path or in the query
DifferentResource(x, y) ==
  \/ x.url.pathname # y.url.pathname
  \/ x.url.searchParams # y.url.searchParams

\* every occurrence of occs has its own resource in the collected list
KeptOver(occs) ==
  \A a \in 1..Len(occs) :
    \E n \in 1..Len(jcrAssets) :
      /\ jcrAssets[n].jcrPath = occs[a].asset.jcrPath
      /\ ~DifferentResource(jcrAssets[n], occs[a].asset)

CollisionFreeOver(occs) ==
  /\ \A a, b \in 1..Len(occs) :
       DifferentResource(occs[a].asset, occs[b].asset)
         => occs[a].asset.jcrPath # occs[b].asset.jcrPath
  /\ Len(jcrAssets) > 0 => KeptOver(occs)

\* C21: within one run two included references whose resolved URLs differ in
\* the path or in the query never get the same jcrPath, so the collected list
\* holds, for every included reference, an asset of that reference's URL:
\* deduplication by jcrPath drops only repetitions of one resource.
CollisionFree ==
  (Len(jcrAssets) > 0 \/ Rewritten) => CollisionFreeOver(IncludedOccurrences)

\* two occurrences of occs are of different resources, and both are written
\* to the archive, each at its own path
BothWritten(occs) ==
  \E a, b \in 1..Len(occs) :
    /\ DifferentResource(occs[a].asset, occs[b].asset)
    /\ occs[a].asset.jcrPath # occs[b].asset.jcrPath
    /\ EntriesAt(BinaryPath(occs[a].asset.jcrPath)) = 1
    /\ EntriesAt(BinaryPath(occs[b].asset.jcrPath)) = 1

\* C21 happens: the archive is saved of a run with two included references
\* of different resources
DistinctResourcesWitness ==
  archive = "saved" /\ BothWritten(IncludedOccurrences)

\* the character code c has no replacement of its own: getSiteName treats it
\* as the placeholder
Unmapped(c) == Replacement(labelCharMapping, c) = defaultReplacementCharacter

\* name has no two placeholders in a row
NoPlaceholderTwice(name) ==
  \A k \in 1..(Len(name) - 1) : ~(name[k] = "_" /\ name[k + 1] = "_")

\* C23: for every site-name configuration the name getSiteName returns does
\* not begin with a separator, the placeholder '_' or '-', and holds no two
\* placeholders in a row.
NoLeadingSeparator ==
  Answered("getSiteName") =>
    /\ Len(ret.value) > 0 => ret.value[1] \notin {"_", "-"}
    /\ NoPlaceholderTwice(ret.value)

\* C23, the part that holds: a configuration with two unmapped characters in
\* a row, followed by a character with a replacement of its own, gets one
\* placeholder for the run
RunCollapsedWitness ==
  /\ Answered("getSiteName")
  /\ \E k \in 1..(Len(siteName) - 2) :
       /\ Unmapped(siteName[k]) /\ Unmapped(siteName[k + 1])
       /\ ~Unmapped(siteName[k + 2])
  /\ Cardinality({k \in 1..Len(ret.value) : ret.value[k] = "_"}) = 1
  /\ NoPlaceholderTwice(ret.value)

\* the probe of getProcessedJcr for image k of page p was answered with a
\* successful response: a mime type could be discovered
Probed(p, k) ==
  \E f \in 1..Len(fetches) :
    /\ fetches[f].by = "getProcessedJcr"
    /\ fetches[f].page = p /\ fetches[f].index = k
    /\ fetches[f].result = "ok"

\* element e of page p does not carry the attribute and is as it was
Untouched(p, e) ==
  /\ e \notin {Images(pages[p].data)[k] : k \in 1..Len(Images(pages[p].data))}
  /\ jcrPages[p].processedXml[e] = pages[p].data[e]

\* image k of page p, the element src of the page, has become out: only the
\* reference and the mime annotation may differ, the reference is the
\* classifier's rewritten value, and an annotation is that of an external
\* http reference whose probe was answered
RewrittenImage(p, k, src, out, asset) ==
  /\ out.name = src.name /\ out.resourceType = src.resourceType
  /\ out.fileReference = asset.processedFileRef
  /\ Truthy(out.fileReferenceMimeType) =>
       /\ StartsWith(src.fileReference, Http)
       /\ ~asset.add
       /\ Probed(p, k)

RewritingFrame(p) ==
  /\ Len(jcrPages[p].processedXml) = Len(pages[p].data)
  /\ \A e \in 1..Len(pages[p].data) :
       \/ Untouched(p, e)
       \/ \E k \in 1..Len(Images(pages[p].data)) :
            /\ Images(pages[p].data)[k] = e
            /\ RewrittenImage(p, k, pages[p].data[e], jcrPages[p].processedXml[e],
                              getAsset(pages[p].data[e].fileReference,
                                       pages[p].url, siteName))

\* C22: rewriting changes only the elements that carry fileReference: an
\* element without it keeps all its attributes, an element with it gets the
\* classifier's rewritten value as its fileReference, and fileReferenceMimeType
\* is added only to an element whose reference begins with http and is not
\* included, and only when the probe discovered a mime type.
OnlyReferencesRewritten ==
  Rewritten => \A p \in 1..Len(pages) : RewritingFrame(p)

\* C22 happens: the pages are rewritten, an element without fileReference is
\* as it was, an included reference is rewritten to its jcrPath, and an
\* external reference is annotated after an answered probe
FrameWitness ==
  /\ Rewritten
  /\ \A p \in 1..Len(pages) : RewritingFrame(p)
  /\ \E p \in 1..Len(pages) : \E e \in 1..Len(pages[p].data) : Untouched(p, e)
  /\ \E p \in 1..Len(pages) : \E e \in 1..Len(pages[p].data) :
       /\ ~Untouched(p, e)
       /\ jcrPages[p].processedXml[e].fileReference # pages[p].data[e].fileReference
  /\ \E p \in 1..Len(pages) : \E e \in 1..Len(pages[p].data) :
       Truthy(jcrPages[p].processedXml[e].fileReferenceMimeType)

====
